---------------------------- MODULE Spec2Model ----------------------------
(***************************************************************************)
(* LN point-neuron response model of cshl_project/point_model.py:          *)
(* LGNnode (subunit) and V1node (population), with the nonlinearities of   *)
(* cshl_project/nonlinearity.py.                                           *)
(*                                                                         *)
(* Numbers.  The program computes in IEEE doubles; the model computes in   *)
(* fixed point.  A real x is the integer x * Scale, an angle is an integer *)
(* number of grid units with Turn units to 2*pi.  Every division rounds    *)
(* (towards zero), as every float operation rounds.  Sine is evaluated by  *)
(* a rational approximation that is exact at the multiples of a quarter    *)
(* turn, so a unit vector on the quarter-turn lattice has modulus exactly  *)
(* Scale; the stimulus geometry (centres, orientations, spatial            *)
(* frequencies, phase offsets) is drawn on that lattice, the phases from   *)
(* the whole grid.                                                         *)
(***************************************************************************)
EXTENDS Integers, Sequences, FiniteSets, TLC

VARIABLES
    nodes,   \* heap of LGNnode objects: Seq of [center, nonlinear, Rmax, C50, Rbase]
    lists,   \* heap of Python list objects: Seq of Seq(node id);
             \* lists[1] is the list the def statement of V1node.__init__ evaluated
    pops,    \* heap of V1node objects: Seq of [subunits: list id, nonlinear]
    calls,   \* V1node evaluations in flight: call id -> frame
    probe    \* the last direct call of an LGNnode method, with its arguments and value

vars == <<nodes, lists, pops, calls, probe>>

---------------------------------------------------------------------------
(* Bounds of the model *)

\* fixed-point scale: the integer v stands for the real v / Scale
Scale == 100
\* angular grid: QuarterUnits grid units to a quarter turn
QuarterUnits == 3
\* largest cycle length (the `length` argument) a call is given
MaxLength == 3
\* largest exponent (the `order` argument) _get_contrast_response is given
MaxOrder == 2
\* V1node objects constructed in a run of the construction specification
MaxPops == 3
\* longest subunit list of the construction specification
MaxListLen == 2

Half == 2 * QuarterUnits
Turn == 4 * QuarterUnits

---------------------------------------------------------------------------
(* Arithmetic *)

Abs(x) == IF x < 0 THEN -x ELSE x

\* a / b for b > 0, rounded towards zero
Div(a, b) == IF a >= 0 THEN a \div b ELSE -((-a) \div b)

\* x ** n for an integer n >= 0; 0 ** 0 = 1 as in Python
RECURSIVE Pow(_, _)
Pow(x, n) == IF n = 0 THEN 1 ELSE x * Pow(x, n - 1)

RECURSIVE IsqrtIter(_, _, _)
IsqrtIter(n, lo, hi) ==
    IF lo >= hi THEN lo
    ELSE LET mid == (lo + hi + 1) \div 2
         IN  IF mid * mid <= n THEN IsqrtIter(n, mid, hi)
             ELSE IsqrtIter(n, lo, mid - 1)

\* floor of the square root of n >= 0
Isqrt(n) == IsqrtIter(n, 0, 46340)

\* np.sin of an angle of the first half turn, p grid units in 0..Half
SinHalf(p) ==
    Div(Scale * 16 * p * (Half - p), 5 * Half * Half - 4 * p * (Half - p))

\* np.sin, scaled by Scale, of an angle of u grid units
Sin(u) ==
    LET h == u % Turn
    IN  IF h < Half THEN SinHalf(h) ELSE -SinHalf(h - Half)

\* np.cos, scaled by Scale
Cos(u) == Sin(u + QuarterUnits)

\* the grid directions of (-Half, Half] and their unit vectors
Dirs == (1 - Half)..Half
UnitDirs == [u \in Dirs |-> <<Cos(u), Sin(u)>>]

\* np.angle of the complex number re + im*j: the grid direction in
\* (-Half, Half] nearest to it.  For the zero vector numpy returns atan2 of
\* the two signed zeros; it is 0 whenever the real part is +0, which is the
\* case for every zero vector the inputs below produce (the first component
\* 0 * exp(j*d1) has d1 in the right half plane).
Angle(re, im) ==
    IF re = 0 /\ im = 0 THEN 0
    ELSE LET proj == [u \in Dirs |-> re * UnitDirs[u][1] + im * UnitDirs[u][2]]
             Best == {u \in Dirs : \A w \in Dirs : proj[w] <= proj[u]}
         IN  CHOOSE u \in Best :
                 \A w \in Best : Abs(u) <= Abs(w) /\ (Abs(u) = Abs(w) => u >= w)

\* np.abs of the complex number re + im*j
Modulus(re, im) == Isqrt(re * re + im * im)

---------------------------------------------------------------------------
(* cshl_project/nonlinearity.py *)

\* relu, the branch for a builtin number
relu(x) == IF x < 0 THEN 0 ELSE x

\* relu, the branch for a numpy array: a copy with the negative entries zeroed
reluArray(x) == [k \in DOMAIN x |-> IF x[k] < 0 THEN 0 ELSE x[k]]

\* rectification, the branch for a builtin number
rectification(x) == IF x < 0 THEN 0 ELSE x

\* rectification, the branch for a numpy array
rectificationArray(x) == [k \in DOMAIN x |-> IF x[k] < 0 THEN 0 ELSE x[k]]

\* the callables a model is constructed with: the two of nonlinearity.py and
\* a caller's own (the identity, lambda x: x)
Nonlinearities == {"relu", "rectification", "identity"}

\* self.nonlinear(x) for a number x
Nonlinear(nl, x) ==
    CASE nl = "relu"          -> relu(x)
      [] nl = "rectification" -> rectification(x)
      [] OTHER                -> x

\* self.nonlinear(x) for an array x
NonlinearArray(nl, x) ==
    CASE nl = "relu"          -> reluArray(x)
      [] nl = "rectification" -> rectificationArray(x)
      [] OTHER                -> x

---------------------------------------------------------------------------
(* LGNnode *)

\* LGNnode.__init__
LGNnode(center, nl, Rmax, C50, Rbase) ==
    [center |-> center, nonlinear |-> nl, Rmax |-> Rmax, C50 |-> C50, Rbase |-> Rbase]

get_contrast_response_Inverted(self, contrast, order) ==
    Div(self.Rmax * Pow(self.C50, order),
        Pow(contrast, order) + Pow(self.C50, order)) + self.Rbase

\* LGNnode._get_contrast_response
get_contrast_response(self, contrast, order) ==
    Div(self.Rmax * Pow(contrast, order),
        Pow(contrast, order) + Pow(self.C50, order)) + self.Rbase

\* [[cos(ori), sin(ori)]] @ self.center / sf * 2 * pi, in grid units
DistPhase(self, ori, sf) ==
    Div((Cos(ori) * self.center[1] + Sin(ori) * self.center[2]) * Turn, sf * Scale)

get_sinusoidal_DefaultContrast(self, ori, contrast, phase, sf) ==
    <<2 * Sin(Div((Cos(ori) * self.center[1] + Sin(ori) * self.center[2]) * Turn,
                  sf * Scale) + phase), 48>>

\* LGNnode._get_sinusoidal: <<luminance * 2, contrast>>
get_sinusoidal(self, ori, contrast, phase, sf) ==
    <<2 * Sin(DistPhase(self, ori, sf) + phase), contrast>>

PlaidVec_OffsetBoth(self, ori1, ori2, contrast1, contrast2, dphase, sf) ==
    LET d1 == DistPhase(self, ori1, sf) + dphase
        d2 == DistPhase(self, ori2, sf) + dphase
    IN  <<contrast1 * Cos(d1) + contrast2 * Cos(d2),
          contrast1 * Sin(d1) + contrast2 * Sin(d2)>>

\* the complex _vec of LGNnode._get_sinusoidal_plaid, <<real, imaginary>>,
\* scaled by Scale * Scale
PlaidVec(self, ori1, ori2, contrast1, contrast2, dphase, sf) ==
    LET d1 == DistPhase(self, ori1, sf)
        d2 == DistPhase(self, ori2, sf) + dphase
    IN  <<contrast1 * Cos(d1) + contrast2 * Cos(d2),
          contrast1 * Sin(d1) + contrast2 * Sin(d2)>>

get_sinusoidal_plaid_MeanContrast(self, ori1, ori2, contrast1, contrast2, phase, dphase, sf) ==
    LET vec == PlaidVec(self, ori1, ori2, contrast1, contrast2, dphase, sf)
    IN  <<2 * Sin(Angle(vec[1], vec[2]) + phase),
          Div(Modulus(vec[1], vec[2]), 2 * Scale)>>

\* LGNnode._get_sinusoidal_plaid: <<luminance * 2, |_vec|>>
get_sinusoidal_plaid(self, ori1, ori2, contrast1, contrast2, phase, dphase, sf) ==
    LET vec == PlaidVec(self, ori1, ori2, contrast1, contrast2, dphase, sf)
    IN  <<2 * Sin(Angle(vec[1], vec[2]) + phase),
          Div(Modulus(vec[1], vec[2]), Scale)>>

\* self._get_contrast_response(_c) * _l
Drive(self, lc) == Div(get_contrast_response(self, lc[2], 1) * lc[1], Scale)

\* LGNnode.get_response_grating for a scalar phase
LGN_get_response_grating(self, ori, contrast, phase, sf) ==
    Nonlinear(self.nonlinear, Drive(self, get_sinusoidal(self, ori, contrast, phase, sf)))

\* LGNnode.get_response_plaid for a scalar phase
LGN_get_response_plaid(self, ori1, ori2, contrast1, contrast2, phase, dphase, sf) ==
    Nonlinear(self.nonlinear,
              Drive(self, get_sinusoidal_plaid(self, ori1, ori2, contrast1, contrast2,
                                               phase, dphase, sf)))

\* LGNnode.get_response_grating for an array of phases: numpy evaluates
\* _get_sinusoidal and the product entry by entry, then the nonlinearity
LGN_get_response_grating_array(self, ori, contrast, phases, sf) ==
    NonlinearArray(self.nonlinear,
        [k \in DOMAIN phases |->
            Drive(self, get_sinusoidal(self, ori, contrast, phases[k], sf))])

\* LGNnode.get_response_plaid for an array of phases
LGN_get_response_plaid_array(self, ori1, ori2, contrast1, contrast2, phases, dphase, sf) ==
    NonlinearArray(self.nonlinear,
        [k \in DOMAIN phases |->
            Drive(self, get_sinusoidal_plaid(self, ori1, ori2, contrast1, contrast2,
                                             phases[k], dphase, sf))])

---------------------------------------------------------------------------
(* Inputs *)

\* subunit centres
Centers == {<<0, 0>>, <<-1, 1>>}
\* Rmax >= 0
Rmaxes == {0, 1130}
\* C50 > 0
C50s == {50}
\* Rbase of either sign
Rbases == {0, 100, -100}

\* the subunits a caller constructs
NodeSpace ==
    {LGNnode(c, nl, rm, c5, rb) :
        c \in Centers, nl \in Nonlinearities, rm \in Rmaxes, c5 \in C50s, rb \in Rbases}

\* orientations, in grid units
Oris == {0, QuarterUnits}
\* contrast levels in [0, 1]
Contrasts == {0, 24, 48}
\* phases, in grid units
Phases == {0, 1, Half + 1}
\* phase offsets of the second grating, in grid units
DeltaPhases == {0, QuarterUnits, Half}
\* spatial frequencies
SpatialFrequencies == {4, 20}
\* exponents of the contrast response function
Orders == 0..MaxOrder
\* cycle lengths
Lengths == 1..MaxLength

\* The two components of a plaid cancel exactly.  In floats their sum is a
\* rounding residue of arbitrary direction, which fixed point does not carry:
\* such plaids are not among the inputs.
Cancels(self, ori1, ori2, contrast1, contrast2, dphase, sf) ==
    /\ contrast1 > 0
    /\ PlaidVec(self, ori1, ori2, contrast1, contrast2, dphase, sf) = <<0, 0>>

---------------------------------------------------------------------------
(* V1node: the phase samples of one cycle *)

\* np.linspace(start, stop, num) for num >= 1: start + k * step,
\* step = (stop - start) / (num - 1)
Linspace(start, stop, num) ==
    [k \in 1..num |->
        IF num = 1 THEN start ELSE start + Div((k - 1) * (stop - start), num - 1)]

\* _step = np.linspace(0, 2*np.pi*(1-1/length), length)
Step(length) == Linspace(0, Div(Turn * (length - 1), length), length)

\* _step + phase
PhaseSamples(length, phase) ==
    LET step == Step(length) IN [k \in DOMAIN step |-> step[k] + phase]

---------------------------------------------------------------------------
(* Direct calls of the methods of one LGNnode *)

NoProbe == [fn |-> "none"]

InitSubunit ==
    /\ nodes \in {<<n>> : n \in NodeSpace}
    /\ lists = <<>>
    /\ pops = <<>>
    /\ calls = <<>>
    /\ probe = NoProbe

\* nodes[1]._get_contrast_response(contrast, order)
CallContrastResponse ==
    /\ probe.fn = "none"
    /\ \E contrast \in Contrasts, order \in Orders :
         probe' = [fn |-> "contrast_response", contrast |-> contrast, order |-> order,
                   out |-> get_contrast_response(nodes[1], contrast, order)]
    /\ UNCHANGED <<nodes, lists, pops, calls>>

\* nodes[1].get_response_grating(ori, contrast, phase, sf), phase a number
CallGrating ==
    /\ probe.fn = "none"
    /\ \E ori \in Oris, contrast \in Contrasts, phase \in Phases, sf \in SpatialFrequencies :
         probe' = [fn |-> "grating", ori |-> ori, contrast |-> contrast,
                   phase |-> phase, sf |-> sf,
                   out |-> LGN_get_response_grating(nodes[1], ori, contrast, phase, sf)]
    /\ UNCHANGED <<nodes, lists, pops, calls>>

\* nodes[1].get_response_grating(ori, contrast, phase, sf), phase an array
CallGratingArray ==
    /\ probe.fn = "none"
    /\ \E ori \in Oris, contrast \in Contrasts, sf \in SpatialFrequencies,
          length \in Lengths, phase \in Phases :
         LET phases == PhaseSamples(length, phase)
         IN  probe' = [fn |-> "grating_array", ori |-> ori, contrast |-> contrast,
                       phase |-> phases, sf |-> sf,
                       out |-> LGN_get_response_grating_array(nodes[1], ori, contrast,
                                                              phases, sf)]
    /\ UNCHANGED <<nodes, lists, pops, calls>>

\* nodes[1].get_response_plaid(ori1, ori2, contrast1, contrast2, phase, dphase, sf)
CallPlaid ==
    /\ probe.fn = "none"
    /\ \E ori1 \in Oris, ori2 \in Oris, contrast1 \in Contrasts, contrast2 \in Contrasts,
          phase \in Phases, dphase \in DeltaPhases, sf \in SpatialFrequencies :
         /\ ~Cancels(nodes[1], ori1, ori2, contrast1, contrast2, dphase, sf)
         /\ probe' = [fn |-> "plaid", ori1 |-> ori1, ori2 |-> ori2,
                      contrast1 |-> contrast1, contrast2 |-> contrast2,
                      phase |-> phase, dphase |-> dphase, sf |-> sf,
                      out |-> LGN_get_response_plaid(nodes[1], ori1, ori2, contrast1,
                                                     contrast2, phase, dphase, sf)]
    /\ UNCHANGED <<nodes, lists, pops, calls>>

\* the caller drops the value; the node is as it was constructed
ProbeReturn ==
    /\ probe.fn # "none"
    /\ probe' = NoProbe
    /\ UNCHANGED <<nodes, lists, pops, calls>>

NextSubunit ==
    \/ CallContrastResponse
    \/ CallGrating
    \/ CallGratingArray
    \/ CallPlaid
    \/ ProbeReturn

SpecSubunit == InitSubunit /\ [][NextSubunit]_vars

---------------------------------------------------------------------------
(* V1node *)

\* V1node.__init__: self.subunits is bound to the list object it is given.
\* by_default records how the constructor was called (history, not a field)
V1node(subunits, nl, by_default) ==
    [subunits |-> subunits, nonlinear |-> nl, by_default |-> by_default]

\* the division of a float by zero
NaN == "nan"

Zeros_OneShort(length) == [k \in 1..(length - 1) |-> 0]

\* _resp = np.zeros(length)
Zeros(length) == [k \in 1..length |-> 0]

\* _resp += curve, in place: _resp keeps its shape
AddCurves(resp, curve) == [k \in DOMAIN resp |-> resp[k] + curve[k]]

Divide_OffByOne(resp, n) == [k \in DOMAIN resp |-> Div(resp[k], n + 1)]

\* _resp / n for the integer n = len(self.subunits): numpy divides entry by
\* entry, and 0.0 / 0 is nan with a RuntimeWarning, not an exception
Divide(resp, n) == [k \in DOMAIN resp |-> IF n = 0 THEN NaN ELSE Div(resp[k], n)]

Pool_Nonlinear(self, resp, n) ==
    [outcome |-> "returned", curve |-> Divide(NonlinearArray(self.nonlinear, resp), n)]

\* return _resp / len(self.subunits): what the call hands back
Pool(self, resp, n) == [outcome |-> "returned", curve |-> Divide(resp, n)]

Accumulator_Shared(c) == CHOOSE a \in {1, 2} : calls[a].pc # "idle" /\ (a = 1 \/ calls[1].pc = "idle")

\* the frame whose _resp the call c accumulates into: _resp is a local
\* of the call
Accumulator(c) == c

\* item.get_response_grating(phase=_step+phase, **kwargs), resp.
\* item.get_response_plaid(phase=_step+phase, **kwargs)
SubunitCurve(item, kind, stim, phases) ==
    IF kind = "grating"
    THEN LGN_get_response_grating_array(item, stim.ori, stim.contrast, phases, stim.sf)
    ELSE LGN_get_response_plaid_array(item, stim.ori1, stim.ori2, stim.contrast1,
                                      stim.contrast2, phases, stim.dphase, stim.sf)

---------------------------------------------------------------------------
(* Evaluations of constructed populations, interleaved *)

\* the subunits of the population runs
NodePool ==
    << LGNnode(<<0, 0>>, "relu", 1130, 50, 0),
       LGNnode(<<-1, 1>>, "identity", 1130, 50, 100),
       LGNnode(<<-1, 1>>, "rectification", 200, 25, -100) >>

\* the list objects of the population runs: lists[1], the default list of
\* V1node.__init__, as it is or after an append; lists[2], a list a caller built
ListHeaps ==
    {<<l1, l2>> : l1 \in {<<>>, <<2>>}, l2 \in {<<3, 1, 2>>}}

\* two populations constructed by default and one on the caller's list
PopHeap ==
    << V1node(1, "relu", TRUE), V1node(1, "identity", TRUE), V1node(2, "relu", FALSE) >>

\* the threads that evaluate
CallIds == {1, 2}

\* the keyword arguments of the grating runs: the initial phase and the
\* stimulus forwarded to the subunits
GratingStims ==
    {[phase |-> 0, ori |-> 0, contrast |-> 48, sf |-> 4],
     [phase |-> 1, ori |-> QuarterUnits, contrast |-> 24, sf |-> 20]}

\* the keyword arguments of the plaid runs
PlaidStims ==
    {[phase |-> 1, ori1 |-> QuarterUnits, ori2 |-> 0, contrast1 |-> 48, contrast2 |-> 24,
      dphase |-> QuarterUnits, sf |-> 4],
     [phase |-> 0, ori1 |-> 0, ori2 |-> QuarterUnits, contrast1 |-> 24, contrast2 |-> 24,
      dphase |-> 0, sf |-> 20]}

Idle == [pc |-> "idle"]

\* the subunit list of the population a call evaluates, read when it is used
Subunits(f) == lists[pops[f.pop].subunits]

Init ==
    /\ nodes = NodePool
    /\ lists \in ListHeaps
    /\ pops = PopHeap
    /\ calls = [c \in CallIds |-> Idle]
    /\ probe = NoProbe

\* the frame of a call at its first statement: _resp and _step are set
Frame(kind, pop, length, stim) ==
    [pc |-> "loop", kind |-> kind, pop |-> pop, length |-> length, phase |-> stim.phase,
     stim |-> stim, i |-> 1, resp |-> Zeros(length), step |-> Step(length)]

\* the frame of a call that has returned, with what it returned
Returned(f, result) ==
    [pc |-> "done", kind |-> f.kind, pop |-> f.pop, length |-> f.length,
     phase |-> f.phase, stim |-> f.stim, i |-> f.i, resp |-> f.resp, step |-> f.step,
     result |-> result]

\* V1node.get_response_grating(length, phase, **kwargs) is entered
StartGrating(c) ==
    /\ calls[c].pc = "idle"
    /\ \E pop \in DOMAIN pops, length \in Lengths, stim \in GratingStims :
         calls' = [calls EXCEPT ![c] = Frame("grating", pop, length, stim)]
    /\ UNCHANGED <<nodes, lists, pops, probe>>

\* V1node.get_response_plaid(length, phase, **kwargs) is entered
StartPlaid(c) ==
    /\ calls[c].pc = "idle"
    /\ \E pop \in DOMAIN pops, length \in Lengths, stim \in PlaidStims :
         /\ \A n \in DOMAIN nodes :
              ~Cancels(nodes[n], stim.ori1, stim.ori2, stim.contrast1, stim.contrast2,
                       stim.dphase, stim.sf)
         /\ calls' = [calls EXCEPT ![c] = Frame("plaid", pop, length, stim)]
    /\ UNCHANGED <<nodes, lists, pops, probe>>

\* one pass of `for item in self.subunits: _resp += item.get_response_...`;
\* numpy raises ValueError when the operand does not have the shape of _resp
Iterate(c) ==
    LET f == calls[c]
    IN  /\ f.pc = "loop"
        /\ f.i <= Len(Subunits(f))
        /\ LET a      == Accumulator(c)
               phases == [k \in DOMAIN f.step |-> f.step[k] + f.phase]
               curve  == SubunitCurve(nodes[Subunits(f)[f.i]], f.kind, f.stim, phases)
           IN  IF Len(curve) = Len(calls[a].resp)
               THEN calls' = [calls EXCEPT ![c].i = f.i + 1,
                                          ![a].resp = AddCurves(calls[a].resp, curve)]
               ELSE calls' = [calls EXCEPT ![c].pc = "raised"]
        /\ UNCHANGED <<nodes, lists, pops, probe>>

\* the loop is exhausted: return _resp / len(self.subunits)
Finish(c) ==
    LET f == calls[c]
    IN  /\ f.pc = "loop"
        /\ f.i > Len(Subunits(f))
        /\ calls' = [calls EXCEPT ![c] =
                        Returned(f, Pool(pops[f.pop], calls[Accumulator(c)].resp,
                                         Len(Subunits(f))))]
        /\ UNCHANGED <<nodes, lists, pops, probe>>

Next ==
    \E c \in CallIds :
        \/ StartGrating(c)
        \/ StartPlaid(c)
        \/ Iterate(c)
        \/ Finish(c)

Spec == Init /\ [][Next]_vars

---------------------------------------------------------------------------
(* Construction of populations *)

\* the lists a caller passes to V1node.__init__
ExplicitLists == {<<>>, <<1>>, <<1, 2>>}

\* after `def __init__(self, subunits=[], nl=relu)` is executed: the default
\* value of subunits is one list object, lists[1]
InitBuild ==
    /\ nodes = NodePool
    /\ lists = << <<>> >>
    /\ pops = <<>>
    /\ calls = [c \in CallIds |-> Idle]
    /\ probe = NoProbe

\* V1node(nl=nl): subunits is the default value, the list object lists[1]
NewDefault ==
    /\ Len(pops) < MaxPops
    /\ \E nl \in Nonlinearities : pops' = Append(pops, V1node(1, nl, TRUE))
    /\ UNCHANGED <<nodes, lists, calls, probe>>

\* V1node(subunits=[...], nl=nl): the caller's list is a new list object
NewExplicit ==
    /\ Len(pops) < MaxPops
    /\ \E subs \in ExplicitLists, nl \in Nonlinearities :
         /\ lists' = Append(lists, subs)
         /\ pops' = Append(pops, V1node(Len(lists) + 1, nl, FALSE))
    /\ UNCHANGED <<nodes, calls, probe>>

\* pops[p].subunits.append(nodes[n])
AppendSubunit ==
    /\ \E p \in DOMAIN pops, n \in DOMAIN nodes :
         /\ Len(lists[pops[p].subunits]) < MaxListLen
         /\ lists' = [lists EXCEPT ![pops[p].subunits] = Append(@, n)]
    /\ UNCHANGED <<nodes, pops, calls, probe>>

NextBuild ==
    \/ NewDefault
    \/ NewExplicit
    \/ AppendSubunit

SpecBuild == InitBuild /\ [][NextBuild]_vars

(* Claims on the construction, under SpecBuild *)

\* C10: every population constructed without an explicit subunit list has
\* its own collection: no two default-constructed V1node instances share a
\* subunit container, so none observes the subunits appended to another.
C10_DefaultListsAreFresh ==
    \A p \in DOMAIN pops, q \in DOMAIN pops :
        (p # q /\ pops[p].by_default /\ pops[q].by_default)
            => pops[p].subunits # pops[q].subunits

---------------------------------------------------------------------------
(* Claims on the subunit, under SpecSubunit *)

\* C7 as stated: _get_contrast_response(contrast = 0, order) returns exactly
\* Rbase, whatever the order argument of the call.
C7_ZeroContrastIsRbase ==
    (probe.fn = "contrast_response" /\ probe.contrast = 0)
        => probe.out = nodes[1].Rbase

\* C7 amended: for every order > 0, _get_contrast_response(contrast = 0, order)
\* returns exactly Rbase (Rmax >= 0, C50 > 0, any Rbase); with order = 0 the
\* power 0 ** 0 is 1 and the value is Rmax / 2 + Rbase.
C7_ZeroContrastIsRbasePositiveOrder ==
    (probe.fn = "contrast_response" /\ probe.contrast = 0 /\ probe.order > 0)
        => probe.out = nodes[1].Rbase

C7_Witness ==
    /\ probe.fn = "contrast_response"
    /\ probe.contrast = 0
    /\ probe.order = 2
    /\ nodes[1].Rmax > 0
    /\ nodes[1].Rbase < 0
    /\ probe.out = nodes[1].Rbase

\* every entry of a value (a number, or an array of numbers) is zero
AllZero(out, isArray) ==
    IF isArray THEN \A k \in DOMAIN out : out[k] = 0 ELSE out = 0

GratingProbe == probe.fn \in {"grating", "grating_array"}

\* C6 as stated: with a relu or rectification nonlinearity, the grating
\* response at contrast = 0 is 0 for every phase, orientation and spatial
\* frequency, whatever the centre and the contrast-response parameters.
C6_ZeroContrastGratingIsZero ==
    (/\ GratingProbe
     /\ probe.contrast = 0
     /\ nodes[1].nonlinear \in {"relu", "rectification"})
        => AllZero(probe.out, probe.fn = "grating_array")

\* C6 amended: with a relu or rectification nonlinearity and Rbase = 0, the
\* grating response at contrast = 0 is 0 for every phase, orientation and
\* spatial frequency (every entry, when the phase is an array), whatever the
\* centre, Rmax and C50.
C6_ZeroContrastGratingIsZeroNoBase ==
    (/\ GratingProbe
     /\ probe.contrast = 0
     /\ nodes[1].nonlinear \in {"relu", "rectification"}
     /\ nodes[1].Rbase = 0)
        => AllZero(probe.out, probe.fn = "grating_array")

C6_Witness ==
    /\ probe.fn = "grating_array"
    /\ Len(probe.phase) > 1
    /\ probe.contrast = 0
    /\ nodes[1].nonlinear = "relu"
    /\ nodes[1].Rbase = 0
    /\ nodes[1].Rmax > 0
    /\ nodes[1].center # <<0, 0>>
    /\ \E k \in DOMAIN probe.phase :
         get_sinusoidal(nodes[1], probe.ori, probe.contrast, probe.phase[k], probe.sf)[1] > 0
    /\ AllZero(probe.out, TRUE)

\* the single grating a plaid probe is compared with
GratingOfPlaid(contrast) ==
    LGN_get_response_grating(nodes[1], probe.ori1, contrast, probe.phase, probe.sf)

\* C4 as stated: get_response_plaid(ori1, contrast1 = c, contrast2 = 0, ...)
\* equals get_response_grating(ori = ori1, contrast = c, ...) for every
\* subunit and every c, phase, phase offset, second orientation and spatial
\* frequency.
C4_PlaidZeroSecondIsGrating ==
    (probe.fn = "plaid" /\ probe.contrast2 = 0)
        => probe.out = GratingOfPlaid(probe.contrast1)

\* C4 amended: the equality holds for every contrast c > 0, and at c = 0 for
\* a subunit with Rbase = 0; at c = 0 the summed vector is zero, its angle is
\* 0 and the plaid's luminance is 2 sin(phase), not that of the grating.
C4_PlaidZeroSecondIsGratingNonzero ==
    (/\ probe.fn = "plaid"
     /\ probe.contrast2 = 0
     /\ (probe.contrast1 > 0 \/ nodes[1].Rbase = 0))
        => probe.out = GratingOfPlaid(probe.contrast1)

C4_Witness ==
    /\ probe.fn = "plaid"
    /\ probe.contrast2 = 0
    /\ probe.contrast1 > 0
    /\ probe.ori2 # probe.ori1
    /\ probe.dphase # 0
    /\ nodes[1].center # <<0, 0>>
    /\ nodes[1].Rbase # 0
    /\ probe.out > 0
    /\ probe.out = GratingOfPlaid(probe.contrast1)

SameComponents ==
    /\ probe.fn = "plaid"
    /\ probe.ori1 = probe.ori2
    /\ probe.contrast1 = probe.contrast2
    /\ probe.dphase = 0

\* C5 as stated: get_response_plaid with ori1 = ori2, contrast1 = contrast2 = c
\* and a zero phase offset equals get_response_grating at that orientation
\* with contrast 2c, for every subunit and every c.
C5_ConstructivePlaidIsDoubleGrating ==
    SameComponents => probe.out = GratingOfPlaid(2 * probe.contrast1)

\* C5 amended: the equality holds for every contrast c > 0, and at c = 0 for
\* a subunit with Rbase = 0.
C5_ConstructivePlaidIsDoubleGratingNonzero ==
    (SameComponents /\ (probe.contrast1 > 0 \/ nodes[1].Rbase = 0))
        => probe.out = GratingOfPlaid(2 * probe.contrast1)

C5_Witness ==
    /\ SameComponents
    /\ probe.contrast1 > 0
    /\ nodes[1].center # <<0, 0>>
    /\ nodes[1].Rbase # 0
    /\ probe.out > 0
    /\ probe.out = GratingOfPlaid(2 * probe.contrast1)
    /\ probe.out # GratingOfPlaid(probe.contrast1)

---------------------------------------------------------------------------
(* Claims on the population, under Spec *)

Done(c) == calls[c].pc = "done"

\* _step + phase of a frame
FramePhases(f) == PhaseSamples(f.length, f.phase)

\* C1: evaluating a population whose subunit collection is empty ends in an
\* explicit error, never in a returned curve.
C1_EmptyPopulationFails ==
    \A c \in CallIds :
        (Done(c) /\ Len(Subunits(calls[c])) = 0) => calls[c].result.outcome = "error"

\* C2: for every cycle length L and every number of subunits the accumulator
\* has L entries after each subunit is added, and the returned curve has
\* exactly L entries.
C2_CurveLengthIsCycleLength ==
    \A c \in CallIds :
        calls[c].pc # "idle" =>
            /\ Len(calls[c].resp) = calls[c].length
            /\ Done(c) => Len(calls[c].result.curve) = calls[c].length

C2_Witness ==
    \E c \in CallIds :
        /\ Done(c)
        /\ calls[c].length > 1
        /\ Len(Subunits(calls[c])) > 1
        /\ Len(calls[c].result.curve) = calls[c].length

\* C3: the curve of a population holding exactly one subunit s equals, entry
\* for entry, the curve s itself returns for the same phase samples and
\* stimulus.
C3_SingleSubunitIsIdentity ==
    \A c \in CallIds :
        (Done(c) /\ Len(Subunits(calls[c])) = 1) =>
            LET f == calls[c]
            IN  f.result.curve =
                    SubunitCurve(nodes[Subunits(f)[1]], f.kind, f.stim, FramePhases(f))

C3_Witness ==
    \E c \in CallIds :
        /\ Done(c)
        /\ Len(Subunits(calls[c])) = 1
        /\ calls[c].kind = "plaid"
        /\ calls[c].length > 1
        /\ \E k \in DOMAIN calls[c].result.curve : calls[c].result.curve[k] < 0

\* the response of one subunit at one phase sample
SubunitAt(item, kind, stim, phase) ==
    IF kind = "grating"
    THEN LGN_get_response_grating(item, stim.ori, stim.contrast, phase, stim.sf)
    ELSE LGN_get_response_plaid(item, stim.ori1, stim.ori2, stim.contrast1,
                                stim.contrast2, phase, stim.dphase, stim.sf)

\* the sum over the subunits subs[1..n] of their responses at one phase sample
RECURSIVE SumAt(_, _, _, _, _)
SumAt(subs, n, kind, stim, phase) ==
    IF n = 0 THEN 0
    ELSE SumAt(subs, n - 1, kind, stim, phase) + SubunitAt(nodes[subs[n]], kind, stim, phase)

\* C9: for a non-empty population, entry k of the returned curve is the sum
\* over the subunits of their responses at phase sample k, divided by the
\* subunit count; the population's own nonlinearity is applied nowhere, so
\* populations that differ in it alone return the same curve.
C9_MeanPoolingWithoutNonlinearity ==
    /\ \A c \in CallIds :
         (Done(c) /\ Len(Subunits(calls[c])) > 0) =>
            LET f    == calls[c]
                subs == Subunits(f)
            IN  \A k \in 1..f.length :
                    f.result.curve[k] =
                        Div(SumAt(subs, Len(subs), f.kind, f.stim, FramePhases(f)[k]),
                            Len(subs))
    /\ \A c \in CallIds, d \in CallIds :
         (/\ Done(c) /\ Done(d)
          /\ Subunits(calls[c]) = Subunits(calls[d])
          /\ calls[c].kind = calls[d].kind
          /\ calls[c].stim = calls[d].stim
          /\ calls[c].length = calls[d].length
          /\ calls[c].phase = calls[d].phase) => calls[c].result = calls[d].result

C9_Witness ==
    \E c \in CallIds, d \in CallIds :
        /\ Done(c) /\ Done(d)
        /\ calls[c].pop # calls[d].pop
        /\ pops[calls[c].pop].nonlinear # pops[calls[d].pop].nonlinear
        /\ pops[calls[c].pop].subunits = pops[calls[d].pop].subunits
        /\ Len(Subunits(calls[c])) > 0
        /\ calls[c].length > 1
        /\ calls[c].result = calls[d].result
        /\ \E k \in DOMAIN calls[c].result.curve : calls[c].result.curve[k] < 0

\* the accumulator of a call that runs alone, after the subunits subs[1..n]
RECURSIVE AccumulateAlone(_, _, _)
AccumulateAlone(f, subs, n) ==
    IF n = 0 THEN Zeros(f.length)
    ELSE AddCurves(AccumulateAlone(f, subs, n - 1),
                   SubunitCurve(nodes[subs[n]], f.kind, f.stim, FramePhases(f)))

\* what the call of frame f returns when it runs alone
Alone(f) ==
    LET subs == Subunits(f)
    IN  [outcome |-> "returned",
         curve   |-> Divide(AccumulateAlone(f, subs, Len(subs)), Len(subs))]

\* C8: in every interleaving of evaluations on populations that share
\* subunits, no step writes a subunit, a subunit list or a population, and
\* each call returns the curve it returns when run alone.
C8_EvaluationsDoNotInterfere ==
    [][/\ nodes' = nodes
       /\ lists' = lists
       /\ pops' = pops
       /\ \A c \in CallIds :
            (calls'[c].pc = "done" /\ calls[c].pc # "done") =>
                calls'[c].result = Alone(calls[c])]_vars

C8_Witness ==
    /\ Done(1) /\ Done(2)
    /\ calls[1].kind # calls[2].kind
    /\ calls[1].length # calls[2].length
    /\ calls[1].pop # calls[2].pop
    /\ pops[calls[1].pop].subunits = pops[calls[2].pop].subunits
    /\ Len(Subunits(calls[1])) > 0
    /\ calls[1].result = Alone(calls[1])
    /\ calls[2].result = Alone(calls[2])

=============================================================================
